---- MODULE Spec2Model ----
(***************************************************************************)
(* A model of askapmetry.py: beam-wise catalogue alignment.                *)
(*                                                                         *)
(* Positions live on a flat patch of sky.  A coordinate is an integer      *)
(* numerator over the common denominator `den`, in arcseconds, so that     *)
(* the mean offsets that the program computes in floating point are        *)
(* represented exactly.  A NaN is represented by a flag.  Catalogues are   *)
(* indexed from 0, as in the program.                                      *)
(***************************************************************************)
EXTENDS Integers, Sequences, FiniteSets, TLC

\* Bounds of the model
MaxK == 3
MaxPasses == 2
MaxPts == 2

\* Default separation limit of calculate_matches and calculate_catalogue_jitter,
\* and the literal of make_catalogue_matrix, in arcseconds
SepLimitArcsec == 9

\* The sky positions (ra, dec), in arcseconds, that input catalogues draw from
Pool == {<<0, 0>>, <<7, 0>>, <<0, 7>>}

\* The separation limits that calculate_matches is exercised with
SepLimits == {5, 9, 10}

VARIABLES
    catalogues,        \* [0..K-1 -> Catalogue]
    den,               \* common denominator of all coordinates and offsets
    match_matrix,      \* result of make_catalogue_matrix
    passes,            \* argument of perform_iterative_shifter
    gather_statistics, \* argument of perform_iterative_shifter
    step,              \* loop variable of perform_iterative_shifter
    step_statistics,   \* list of StepInfo
    pc,                \* "start", "seed", "loop", "done", "raised"
    error,             \* the exception that ended the run, or "none"
    original,          \* history: the catalogues as loaded
    entry_fixed,       \* history: indices fixed when perform_iterative_shifter was entered
    seed_calls,        \* history: number of calls of set_seed_catalogues
    seed_idx,          \* history: the index picked by set_seed_catalogues, or -1
    trace,             \* history: one record per executed loop iteration
    applied,           \* history: per catalogue, the offset_means it was shifted by
    twin,              \* a second run on the same input with the other gather_statistics
    mA, mB, mL, mAB, mBA, mCalled  \* calculate_matches called on its own

vars == <<catalogues, den, match_matrix, passes, gather_statistics, step,
          step_statistics, pc, error, original, entry_fixed, seed_calls,
          seed_idx, trace, applied, twin, mA, mB, mL, mAB, mBA, mCalled>>

shifterVars == <<catalogues, den, match_matrix, passes, gather_statistics, step,
                 step_statistics, pc, error, original, entry_fixed, seed_calls,
                 seed_idx, trace, applied>>

matchVars == <<mA, mB, mL, mAB, mBA, mCalled>>

auxVars == <<twin, mA, mB, mL, mAB, mBA, mCalled>>

----------------------------------------------------------------------------
\* Arithmetic helpers

Abs(x) == IF x < 0 THEN -x ELSE x

GCD(a, b) ==
    IF a = 0 THEN Abs(b) ELSE IF b = 0 THEN Abs(a)
    ELSE CHOOSE g \in 1..Abs(a) :
            /\ a % g = 0 /\ b % g = 0
            /\ \A h \in (g + 1)..Abs(a) : ~(a % h = 0 /\ b % h = 0)

\* Sum of f[e] over the finite set S
SumOver(S, f) ==
    LET sum[T \in SUBSET S] ==
            IF T = {} THEN 0
            ELSE LET e == CHOOSE x \in T : TRUE IN f[e] + sum[T \ {e}]
    IN sum[S]

\* Number of catalogues in a collection
NumCat(cats) == Cardinality(DOMAIN cats)

----------------------------------------------------------------------------
\* Data model

\* class Offset: ra and dec in arcseconds (numerators over den); nan marks
\* a floating point NaN in both fields
Offset == [nan |-> FALSE, ra |-> 0, dec |-> 0]

NaNOffset == [nan |-> TRUE, ra |-> 0, dec |-> 0]

\* class Catalogue: the table's (ra, dec) rows, whether those are NaN, the
\* fixed flag and the cumulative offset
Catalogue(points) ==
    [points |-> points, nanpos |-> FALSE, fixed |-> FALSE, offset |-> Offset]

\* Strict lexicographic order on positions, to enumerate each point set once
PointLess(p, q) == p[1] < q[1] \/ (p[1] = q[1] /\ p[2] < q[2])

\* The tables an input catalogue may hold: up to MaxPts distinct positions
Tables ==
    { s \in UNION { [1..n -> Pool] : n \in 0..MaxPts } :
        \A i \in 1..Len(s) : \A j \in 1..Len(s) : i < j => PointLess(s[i], s[j]) }

----------------------------------------------------------------------------
\* Cross-matching

\* make_sky_coords: the sky positions of a catalogue's table
make_sky_coords(catalogue) ==
    [points |-> catalogue.points, nan |-> catalogue.nanpos]

\* A separation test on each axis by itself: a box instead of a circle
WithinBox(p, q, seplimit, d) ==
    /\ (p[1] - q[1]) * (p[1] - q[1]) <= (seplimit * d) * (seplimit * d)
    /\ (p[2] - q[2]) * (p[2] - q[2]) <= (seplimit * d) * (seplimit * d)

\* Whether positions p and q (numerators over d) are within seplimit arcseconds
Within(p, q, seplimit, d) ==
    (p[1] - q[1]) * (p[1] - q[1]) + (p[2] - q[2]) * (p[2] - q[2])
        <= (seplimit * d) * (seplimit * d)

\* A cross-match that pairs each position of sky_pos_1 with its nearest
\* neighbour in sky_pos_2 only, as match_coordinates_sky would
NearestNeighbourSearch(sky_pos_1, sky_pos_2, seplimit, d) ==
    [raised |-> FALSE,
     idx |-> { ij \in (1..Len(sky_pos_1.points)) \X (1..Len(sky_pos_2.points)) :
                /\ Within(sky_pos_1.points[ij[1]], sky_pos_2.points[ij[2]], seplimit, d)
                /\ \A j \in 1..(ij[2] - 1) :
                      ~Within(sky_pos_1.points[ij[1]], sky_pos_2.points[j], seplimit, d) }]

\* A cross-match that leaves out the pairs of coincident positions, as a
\* search for neighbours within one catalogue would
SearchExcludingCoincident(sky_pos_1, sky_pos_2, seplimit, d) ==
    [raised |-> FALSE,
     idx |-> { ij \in (1..Len(sky_pos_1.points)) \X (1..Len(sky_pos_2.points)) :
                /\ sky_pos_1.points[ij[1]] # sky_pos_2.points[ij[2]]
                /\ Within(sky_pos_1.points[ij[1]], sky_pos_2.points[ij[2]], seplimit, d) }]

\* astropy's search_around_sky, as the program uses it: every pair (i, j) with
\* sky_pos_1[i] and sky_pos_2[j] within seplimit.  An empty input gives the
\* empty result; otherwise a NaN coordinate raises ValueError while the kd-tree
\* is built.
search_around_sky(sky_pos_1, sky_pos_2, seplimit, d) ==
    IF Len(sky_pos_1.points) = 0 \/ Len(sky_pos_2.points) = 0
    THEN [raised |-> FALSE, idx |-> {}]
    ELSE IF sky_pos_1.nan \/ sky_pos_2.nan
    THEN [raised |-> TRUE, idx |-> {}]
    ELSE [raised |-> FALSE,
          idx |-> { ij \in (1..Len(sky_pos_1.points)) \X (1..Len(sky_pos_2.points)) :
                      Within(sky_pos_1.points[ij[1]], sky_pos_2.points[ij[2]],
                             seplimit, d) }]

\* np.mean of the offsets of n matched pairs whose sums are sum_ra and sum_dec:
\* the exact fraction (ra / div, dec / div) in lowest terms, NaN for n = 0
Fraction(sum_ra, sum_dec, n, g) ==
    [nan |-> FALSE, ra |-> sum_ra \div g, dec |-> sum_dec \div g, div |-> n \div g]

Mean(sum_ra, sum_dec, n) ==
    IF n = 0 THEN [nan |-> TRUE, ra |-> 0, dec |-> 0, div |-> 1]
    ELSE Fraction(sum_ra, sum_dec, n, GCD(n, GCD(sum_ra, sum_dec)))

\* The Match that calculate_matches builds from the sky positions and the
\* index pairs found: their number n and the mean of the offsets from
\* catalogue 1's to catalogue 2's matched positions
Match(sky_pos_1, sky_pos_2, found) ==
    [raised |-> found.raised,
     matches |-> found.idx,
     n |-> Cardinality(found.idx),
     offset_mean |->
        Mean(SumOver(found.idx,
                     [ij \in found.idx |->
                        sky_pos_2.points[ij[2]][1] - sky_pos_1.points[ij[1]][1]]),
             SumOver(found.idx,
                     [ij \in found.idx |->
                        sky_pos_2.points[ij[2]][2] - sky_pos_1.points[ij[1]][2]]),
             Cardinality(found.idx))]

\* calculate_matches: cross-match the two catalogues' sky positions
calculate_matches(catalogue_1, catalogue_2, sep_limit_arcsecond, d) ==
    Match(make_sky_coords(catalogue_1), make_sky_coords(catalogue_2),
          search_around_sky(make_sky_coords(catalogue_1), make_sky_coords(catalogue_2),
                            sep_limit_arcsecond, d))

\* make_catalogue_matrix: the number of matches of every pair b1 < b2 at
\* [b1][b2], zero elsewhere; a cross-match that raises ends the function with
\* its ValueError
make_catalogue_matrix(cats, d) ==
    [raised |-> \E b1 \in DOMAIN cats : \E b2 \in DOMAIN cats :
                   /\ b1 < b2
                   /\ search_around_sky(make_sky_coords(cats[b1]),
                                        make_sky_coords(cats[b2]),
                                        SepLimitArcsec, d).raised,
     matrix |-> [b1 \in DOMAIN cats |-> [b2 \in DOMAIN cats |->
        IF b1 < b2
        THEN Cardinality(search_around_sky(make_sky_coords(cats[b1]),
                                           make_sky_coords(cats[b2]),
                                           SepLimitArcsec, d).idx)
        ELSE 0]]]

----------------------------------------------------------------------------
\* Seed selection

\* np.argmax: the first index of a maximal value
ArgMax(f) ==
    CHOOSE i \in DOMAIN f :
        /\ \A j \in DOMAIN f : f[j] <= f[i]
        /\ \A j \in DOMAIN f : j < i => f[j] < f[i]

\* The indices of the fixed catalogues
FixedSet(cats) == { i \in DOMAIN cats : cats[i].fixed }

\* A seed selection that leaves out the assertion on the number of seeds
SetSeedUnchecked(cats, matrix) ==
    IF DOMAIN cats = {}
    THEN [error |-> "ValueError", catalogues |-> cats, idx |-> -1]
    ELSE [error |-> "none",
          catalogues |->
              [cats EXCEPT ![ArgMax([j \in DOMAIN cats |->
                                SumOver(DOMAIN cats,
                                        [i \in DOMAIN cats |-> matrix[i][j]])])].fixed = TRUE],
          idx |-> ArgMax([j \in DOMAIN cats |->
                            SumOver(DOMAIN cats, [i \in DOMAIN cats |-> matrix[i][j]])])]

\* A seed selection that returns an empty collection as it is
SetSeedAcceptingEmpty(cats, matrix) ==
    IF DOMAIN cats = {}
    THEN [error |-> "none", catalogues |-> cats, idx |-> -1]
    ELSE [SetSeedUnchecked(cats, matrix) EXCEPT
             !.error = IF Cardinality(FixedSet(SetSeedUnchecked(cats, matrix).catalogues)) = 1
                       THEN "none" ELSE "AssertionError"]

\* set_seed_catalogues: fix the catalogue at the argmax of np.sum(axis=0), the
\* column sums; argmax of an empty array raises ValueError, and more than one
\* fixed catalogue afterwards fails the assertion
set_seed_catalogues(cats, matrix) ==
    IF DOMAIN cats = {}
    THEN [error |-> "ValueError", catalogues |-> cats, idx |-> -1]
    ELSE LET sum_matrix == [j \in DOMAIN cats |->
                               SumOver(DOMAIN cats, [i \in DOMAIN cats |-> matrix[i][j]])]
             idx == ArgMax(sum_matrix)
             marked == [cats EXCEPT ![idx].fixed = TRUE]
         IN [error |-> IF Cardinality(FixedSet(marked)) = 1
                       THEN "none" ELSE "AssertionError",
             catalogues |-> marked,
             idx |-> idx]

----------------------------------------------------------------------------
\* The scheduler's operations

\* The result of find_next_pair before any pair was looked at; found = FALSE
\* stands for the return value None
NoPair ==
    [error |-> "none", found |-> FALSE, fixed_beam_idx |-> -1, shift_beam_idx |-> -1,
     matches |-> [raised |-> FALSE, matches |-> {}, n |-> 0,
                  offset_mean |-> Mean(0, 0, 0)]]

\* Loop pairs in which every other catalogue, fixed or not, is a candidate
LoopPairsAnyCandidate(cats) ==
    SelectSeq([i \in 1..(NumCat(cats) * NumCat(cats)) |->
                  <<(i - 1) \div NumCat(cats), (i - 1) % NumCat(cats)>>],
              LAMBDA fc : cats[fc[1]].fixed /\ fc[1] # fc[2])

\* The (fixed, candidate) index pairs in the order the nested loops of
\* find_next_pair visit them: fixed index ascending, then candidate ascending
LoopPairs(cats) ==
    LET K == NumCat(cats)
        all == [i \in 1..(K * K) |-> <<(i - 1) \div K, (i - 1) % K>>]
    IN SelectSeq(all, LAMBDA fc : cats[fc[1]].fixed /\ ~cats[fc[2]].fixed)

\* The body of the inner loop of find_next_pair: the loop variables after
\* the pair fc with cross-match result matches, from their values best
Update(best, fc, matches) ==
    IF matches.raised
    THEN [best EXCEPT !.error = "ValueError"]
    ELSE IF ~best.found \/ matches.n > best.matches.n
    THEN [error |-> "none", found |-> TRUE,
          fixed_beam_idx |-> fc[1], shift_beam_idx |-> fc[2], matches |-> matches]
    ELSE best

\* The nested loops of find_next_pair: best[i] is the state of the variables
\* ideal_fixed_beam_idx, ideal_shift_beam_idx and current_best_match after the
\* i-th pair; a cross-match that raises ends the scan
ScanPairs(cats, d, pairs) ==
    LET best[i \in 0..Len(pairs)] ==
            IF i = 0 THEN NoPair
            ELSE IF best[i - 1].error # "none" THEN best[i - 1]
            ELSE Update(best[i - 1], pairs[i],
                        calculate_matches(cats[pairs[i][1]], cats[pairs[i][2]],
                                          SepLimitArcsec, d))
    IN best[Len(pairs)]

\* find_next_pair: asserts that a catalogue is fixed, returns None without a
\* floating catalogue, else the first pair with the greatest number of matches
find_next_pair(cats, d) ==
    IF FixedSet(cats) = {}
    THEN [NoPair EXCEPT !.error = "AssertionError"]
    ELSE IF DOMAIN cats \ FixedSet(cats) = {}
    THEN NoPair
    ELSE ScanPairs(cats, d, LoopPairs(cats))

\* A random index drawn with randint(0, max_index), one past the last index
SelectIndexInclusive(max_index) == 0 .. max_index

\* _select_random_index: the values randint(0, max_index - 1) may return
_select_random_index(max_index) == 0 .. (max_index - 1)

\* A shift that adds the offset to every position instead of taking it away
ShiftAwayFromReference(sky_coords, offset) ==
    [points |-> [i \in 1..Len(sky_coords.points) |->
                    IF offset.nan THEN sky_coords.points[i]
                    ELSE <<sky_coords.points[i][1] + offset.ra,
                           sky_coords.points[i][2] + offset.dec>>],
     nan |-> sky_coords.nan \/ (offset.nan /\ Len(sky_coords.points) > 0)]

\* add_offset_to_coords_skyframeoffset: every position moved by minus the
\* offset; a NaN offset makes every position NaN
add_offset_to_coords_skyframeoffset(sky_coords, offset) ==
    [points |-> [i \in 1..Len(sky_coords.points) |->
                    IF offset.nan THEN sky_coords.points[i]
                    ELSE <<sky_coords.points[i][1] - offset.ra,
                           sky_coords.points[i][2] - offset.dec>>],
     nan |-> sky_coords.nan \/ (offset.nan /\ Len(sky_coords.points) > 0)]

\* An offset update that forgets the offset the catalogue already carries
OverwriteOffset(a, b) == a

\* Floating point addition of two offsets' fields
AddOffsets(a, b) ==
    IF a.nan \/ b.nan THEN NaNOffset
    ELSE [nan |-> FALSE, ra |-> a.ra + b.ra, dec |-> a.dec + b.dec]

\* add_offset_to_catalogue: a copy of the catalogue with its positions shifted
\* and the offset added to the offset it carries
WithCoords(catalogue, new_coords, offset) ==
    [catalogue EXCEPT !.points = new_coords.points,
                      !.nanpos = new_coords.nan,
                      !.offset = AddOffsets(offset, catalogue.offset)]

add_offset_to_catalogue(catalogue, offset) ==
    WithCoords(catalogue,
               add_offset_to_coords_skyframeoffset(make_sky_coords(catalogue), offset),
               offset)

\* calculate_catalogue_jitter: the number of matches over all pairs b1 < b2
\* (the sum of their separations, a real number, is not represented)
StepInfo(combos, res) ==
    [raised |-> \E c \in combos : res[c].raised,
     number_of_matches |->
        SumOver(combos, [c \in combos |-> Cardinality(res[c].idx)])]

\* itertools.combinations(range(K), 2)
Combos(cats) == { c \in (DOMAIN cats) \X (DOMAIN cats) : c[1] < c[2] }

calculate_catalogue_jitter(cats, d) ==
    StepInfo(Combos(cats),
             [c \in Combos(cats) |->
                search_around_sky(make_sky_coords(cats[c[1]]),
                                  make_sky_coords(cats[c[2]]), SepLimitArcsec, d)])

\* A reseed that fixes the catalogue at r without unfixing the others
ReseedWithoutUnfix(cats, r) ==
    [i \in DOMAIN cats |-> [cats[i] EXCEPT !.fixed = (cats[i].fixed \/ i = r)]]

\* A reseed that also forgets the offsets accumulated in the pass before
ReseedResettingOffset(cats, r) ==
    [i \in DOMAIN cats |-> [cats[i] EXCEPT !.fixed = (i = r), !.offset = Offset]]

\* A reseed that unfixes every catalogue and fixes none
ReseedUnfixOnly(cats, r) ==
    [i \in DOMAIN cats |-> [cats[i] EXCEPT !.fixed = FALSE]]

\* reseed_initial_fixed_catalogue: unfix every catalogue, then fix the one at
\* the random index r
reseed_initial_fixed_catalogue(cats, r) ==
    [i \in DOMAIN cats |-> [cats[i] EXCEPT !.fixed = (i = r)]]

\* Every coordinate and offset of the catalogues over a denominator k times
\* as large
Rescale(cats, k) ==
    [i \in DOMAIN cats |->
        [cats[i] EXCEPT
            !.points = [p \in 1..Len(cats[i].points) |->
                          <<cats[i].points[p][1] * k, cats[i].points[p][2] * k>>],
            !.offset = [nan |-> cats[i].offset.nan,
                        ra |-> cats[i].offset.ra * k,
                        dec |-> cats[i].offset.dec * k]]]

\* The result of a loop iteration that ends without a shift: an exception
\* of find_next_pair, or a reseed
Unshifted(kind, exception, cats, d, pair_match) ==
    [kind |-> kind, error |-> exception, catalogues |-> cats, den |-> d, scale |-> 1,
     shifted |-> FALSE, pair_match |-> pair_match, offset |-> NaNOffset,
     number_of_matches |-> -1]

\* The result of a loop iteration that has put the shifted catalogue in
\* place: with gather_statistics, total_seps is the StepInfo to record, or
\* the exception of calculate_catalogue_jitter
Shifted(shifted, d, k, gather, pair_match, offset, total_seps) ==
    [kind |-> IF gather /\ total_seps.raised THEN "raise" ELSE "shift",
     error |-> IF gather /\ total_seps.raised THEN "ValueError" ELSE "none",
     catalogues |-> shifted, den |-> d, scale |-> k, shifted |-> TRUE,
     pair_match |-> pair_match, offset |-> offset,
     number_of_matches |-> IF gather /\ ~total_seps.raised
                           THEN total_seps.number_of_matches ELSE -1]

\* A replacement that does not mark the shifted copy as fixed
ReplaceUnfixed(cats, shift_beam_idx, offset) ==
    [cats EXCEPT ![shift_beam_idx] =
        add_offset_to_catalogue(cats[shift_beam_idx], offset)]

\* A replacement that shifts every floating catalogue by the offset
ReplaceEveryFloating(cats, shift_beam_idx, offset) ==
    [i \in DOMAIN cats |->
        IF i = shift_beam_idx
        THEN [add_offset_to_catalogue(cats[i], offset) EXCEPT !.fixed = TRUE]
        ELSE IF ~cats[i].fixed THEN add_offset_to_catalogue(cats[i], offset)
        ELSE cats[i]]

\* The catalogues after the catalogue at shift_beam_idx is replaced by its
\* copy shifted by offset and marked fixed
Replace(cats, shift_beam_idx, offset) ==
    [cats EXCEPT ![shift_beam_idx] =
        [add_offset_to_catalogue(cats[shift_beam_idx], offset) EXCEPT !.fixed = TRUE]]

\* The shift of a loop iteration, on catalogues brought to the denominator
\* d in which offset, the pair's offset_mean, is a whole number
ShiftOnto(scaled, d, k, gather, pair_match, offset) ==
    Shifted(Replace(scaled, pair_match.shift_beam_idx, offset), d, k, gather,
            pair_match, offset,
            calculate_catalogue_jitter(
                Replace(scaled, pair_match.shift_beam_idx, offset), d))

\* The loop body of perform_iterative_shifter after find_next_pair has
\* returned pair_match
AfterPair(cats, d, gather, r, pair_match) ==
    IF pair_match.error # "none"
    THEN Unshifted("raise", pair_match.error, cats, d, pair_match)
    ELSE IF ~pair_match.found
    THEN Unshifted("reseed", "none", reseed_initial_fixed_catalogue(cats, r), d,
                   pair_match)
    ELSE ShiftOnto(Rescale(cats, pair_match.matches.offset_mean.div),
                   d * pair_match.matches.offset_mean.div,
                   pair_match.matches.offset_mean.div,
                   gather, pair_match,
                   [nan |-> pair_match.matches.offset_mean.nan,
                    ra |-> pair_match.matches.offset_mean.ra,
                    dec |-> pair_match.matches.offset_mean.dec])

\* One iteration of the loop of perform_iterative_shifter on the catalogues
\* cats over denominator d, with r the random index a reseed would draw
LoopBody(cats, d, gather, r) ==
    AfterPair(cats, d, gather, r, find_next_pair(cats, d))

----------------------------------------------------------------------------
\* The program as a state machine

\* The catalogues a caller may pass in: any table, either value of the fixed
\* flag, zero offset
InputCatalogues ==
    { [Catalogue(t) EXCEPT !.fixed = f] : t \in Tables, f \in BOOLEAN }

\* Values of the variables that belong to the exercise of calculate_matches
NoMatch == NoPair.matches

\* The second run before it is started
NoTwin ==
    [pc |-> "off", error |-> "none", catalogues |-> << >>, den |-> 1, step |-> 0,
     pairs |-> << >>]

Init ==
    /\ catalogues \in UNION { [0..(K - 1) -> InputCatalogues] : K \in 0..MaxK }
    /\ passes \in 1..MaxPasses
    /\ gather_statistics \in BOOLEAN
    /\ den = 1
    /\ match_matrix = << >>
    /\ step = 0
    /\ step_statistics = << >>
    /\ pc = "start"
    /\ error = "none"
    /\ original = catalogues
    /\ entry_fixed = {}
    /\ seed_calls = 0
    /\ seed_idx = -1
    /\ trace = << >>
    /\ applied = [i \in DOMAIN catalogues |-> << >>]
    /\ twin = NoTwin
    /\ mA = Catalogue(<< >>) /\ mB = Catalogue(<< >>) /\ mL = SepLimitArcsec
    /\ mAB = NoMatch /\ mBA = NoMatch /\ mCalled = FALSE

\* beam_wise_shifts, first half: make_and_plot_match_matrix; the ValueError of
\* a cross-match ends the run before the seed selection
MatrixEffect(res) ==
    /\ match_matrix' = IF res.raised THEN << >> ELSE res.matrix
    /\ pc' = IF res.raised THEN "raised" ELSE "seed"
    /\ error' = IF res.raised THEN "ValueError" ELSE error

MakeMatrix ==
    /\ pc = "start"
    /\ MatrixEffect(make_catalogue_matrix(catalogues, den))
    /\ UNCHANGED <<catalogues, den, passes, gather_statistics, step, step_statistics,
                   original, entry_fixed, seed_calls, seed_idx, trace, applied>>
    /\ UNCHANGED auxVars

\* beam_wise_shifts, second half: set_seed_catalogues, then the call of
\* perform_iterative_shifter if it returned
SeedEffect(res) ==
    /\ catalogues' = res.catalogues
    /\ seed_idx' = res.idx
    /\ error' = res.error
    /\ pc' = IF res.error = "none" THEN "loop" ELSE "raised"
    /\ entry_fixed' = IF res.error = "none" THEN FixedSet(res.catalogues) ELSE {}

SetSeed ==
    /\ pc = "seed"
    /\ SeedEffect(set_seed_catalogues(catalogues, match_matrix))
    /\ seed_calls' = seed_calls + 1
    /\ UNCHANGED <<den, match_matrix, passes, gather_statistics, step, step_statistics,
                   original, trace, applied>>
    /\ UNCHANGED auxVars

\* perform_iterative_shifter called on the catalogues as they are, without a
\* seed selection
Enter ==
    /\ pc = "start"
    /\ pc' = "loop"
    /\ entry_fixed' = FixedSet(catalogues)
    /\ UNCHANGED <<catalogues, den, match_matrix, passes, gather_statistics, step,
                   step_statistics, error, original, seed_calls, seed_idx, trace, applied>>

DirectCall == Enter /\ UNCHANGED auxVars

\* The history of applied offsets after an iteration with result res
AppliedAfter(res) ==
    [i \in DOMAIN applied |->
        [j \in 1..Len(applied[i]) |->
            [nan |-> applied[i][j].nan,
             ra |-> applied[i][j].ra * res.scale,
             dec |-> applied[i][j].dec * res.scale]]
        \o (IF res.shifted /\ i = res.pair_match.shift_beam_idx
            THEN <<res.offset>> ELSE << >>)]

\* The history record of an iteration with result res
TraceEntry(res) ==
    [step |-> step, kind |-> res.kind, shifted |-> res.shifted,
     fixed_beam_idx |-> res.pair_match.fixed_beam_idx,
     shift_beam_idx |-> res.pair_match.shift_beam_idx,
     n |-> res.pair_match.matches.n,
     matches |-> res.pair_match.matches.matches,
     recorded |-> (res.kind = "shift" /\ gather_statistics),
     number_of_matches |-> res.number_of_matches,
     fixed_before |-> FixedSet(catalogues)]

\* The loop of perform_iterative_shifter has iterations left
InLoop == pc = "loop" /\ step < NumCat(catalogues) * passes

\* A loop iteration that shifts the best floating catalogue onto its fixed
\* partner, fixes it, and records the statistics if asked to
ShiftEffect(res) ==
    /\ res.kind = "shift"
    /\ catalogues' = res.catalogues
    /\ den' = res.den
    /\ step_statistics' =
          IF gather_statistics
          THEN Append(step_statistics, [number_of_matches |-> res.number_of_matches])
          ELSE step_statistics
    /\ trace' = Append(trace, TraceEntry(res))
    /\ applied' = AppliedAfter(res)

Shift ==
    /\ InLoop
    /\ ShiftEffect(LoopBody(catalogues, den, gather_statistics, 0))
    /\ step' = step + 1
    /\ UNCHANGED <<match_matrix, passes, gather_statistics, pc, error, original,
                   entry_fixed, seed_calls, seed_idx>>

ShiftStep == Shift /\ UNCHANGED auxVars

\* A loop iteration that finds no floating catalogue and reseeds with the
\* random index r
ReseedEffect(res) ==
    /\ res.kind = "reseed"
    /\ catalogues' = res.catalogues
    /\ trace' = Append(trace, TraceEntry(res))

\* A reseed iteration that goes on to record the statistics, as a shift does
ReseedRecording(r) ==
    /\ InLoop
    /\ ReseedEffect(LoopBody(catalogues, den, gather_statistics, r))
    /\ step' = step + 1
    /\ step_statistics' =
          IF gather_statistics
          THEN Append(step_statistics,
                      [number_of_matches |->
                          calculate_catalogue_jitter(catalogues', den).number_of_matches])
          ELSE step_statistics
    /\ UNCHANGED <<den, match_matrix, passes, gather_statistics, pc,
                   error, original, entry_fixed, seed_calls, seed_idx, applied>>

Reseed(r) ==
    /\ InLoop
    /\ ReseedEffect(LoopBody(catalogues, den, gather_statistics, r))
    /\ step' = step + 1
    /\ UNCHANGED <<den, match_matrix, passes, gather_statistics, step_statistics, pc,
                   error, original, entry_fixed, seed_calls, seed_idx, applied>>

ReseedStep(r) == Reseed(r) /\ UNCHANGED auxVars

\* A loop iteration that ends the run with an exception: the assertion of
\* find_next_pair, or the ValueError of a cross-match on NaN positions
RaiseEffect(res) ==
    /\ res.kind = "raise"
    /\ catalogues' = res.catalogues
    /\ den' = res.den
    /\ error' = res.error
    /\ trace' = Append(trace, TraceEntry(res))
    /\ applied' = AppliedAfter(res)

Raise ==
    /\ InLoop
    /\ RaiseEffect(LoopBody(catalogues, den, gather_statistics, 0))
    /\ pc' = "raised"
    /\ UNCHANGED <<match_matrix, passes, gather_statistics, step, step_statistics,
                   original, entry_fixed, seed_calls, seed_idx>>

StepRaises == Raise /\ UNCHANGED auxVars

\* The loop is over and perform_iterative_shifter returns the catalogues
Finish ==
    /\ pc = "loop"
    /\ step = NumCat(catalogues) * passes
    /\ pc' = "done"
    /\ UNCHANGED <<catalogues, den, match_matrix, passes, gather_statistics, step,
                   step_statistics, error, original, entry_fixed, seed_calls, seed_idx,
                   trace, applied>>

Return == Finish /\ UNCHANGED auxVars

Next ==
    \/ MakeMatrix
    \/ SetSeed
    \/ DirectCall
    \/ ShiftStep
    \/ \E r \in _select_random_index(NumCat(catalogues)) : ReseedStep(r)
    \/ StepRaises
    \/ Return

Spec == Init /\ [][Next]_vars

----------------------------------------------------------------------------
\* Two runs of perform_iterative_shifter side by side: the same catalogues,
\* the same passes and the same random indices, one run with
\* gather_statistics = TRUE (the variables of Spec) and one with FALSE (twin)

\* Both runs are called
PairStart ==
    /\ gather_statistics
    /\ Enter
    /\ twin' = [NoTwin EXCEPT !.pc = "loop", !.catalogues = catalogues, !.den = den]
    /\ UNCHANGED matchVars

\* The second run after a loop iteration with result res
TwinAfter(res) ==
    [pc |-> IF res.kind = "raise" THEN "raised" ELSE "loop",
     error |-> res.error,
     catalogues |-> res.catalogues,
     den |-> res.den,
     step |-> IF res.kind = "raise" THEN twin.step ELSE twin.step + 1,
     pairs |-> Append(twin.pairs,
                      <<res.kind, res.pair_match.fixed_beam_idx,
                        res.pair_match.shift_beam_idx>>)]

\* The second run makes a loop iteration, with r the random index a reseed
\* would draw
TwinMove(r) ==
    /\ twin.pc = "loop"
    /\ twin.step < NumCat(twin.catalogues) * passes
    /\ twin' = TwinAfter(LoopBody(twin.catalogues, twin.den, FALSE, r))

\* The loop of the second run is over and it returns; no random index is drawn
TwinReturn ==
    /\ twin.pc = "loop"
    /\ twin.step = NumCat(twin.catalogues) * passes
    /\ twin' = [twin EXCEPT !.pc = "done"]

\* Both runs make a loop iteration, with the same random index
PairStep(r) ==
    /\ Shift \/ Reseed(r) \/ Raise
    /\ TwinMove(r)
    /\ UNCHANGED matchVars

\* Both runs return
PairReturn ==
    /\ Finish
    /\ TwinReturn
    /\ UNCHANGED matchVars

\* The second run makes a loop iteration after the first has ended
TwinStep(r) ==
    /\ pc \in {"done", "raised"}
    /\ TwinMove(r)
    /\ UNCHANGED shifterVars
    /\ UNCHANGED matchVars

\* The second run returns after the first has ended
TwinFinish ==
    /\ pc \in {"done", "raised"}
    /\ TwinReturn
    /\ UNCHANGED shifterVars
    /\ UNCHANGED matchVars

NextPair ==
    \/ PairStart
    \/ \E r \in _select_random_index(NumCat(catalogues)) : PairStep(r)
    \/ PairReturn
    \/ \E r \in _select_random_index(NumCat(catalogues)) : TwinStep(r)
    \/ TwinFinish

SpecPair == Init /\ [][NextPair]_vars

----------------------------------------------------------------------------
\* calculate_matches called on its own, in both orders of its arguments

InitMatch ==
    /\ catalogues = << >> /\ passes = 1 /\ gather_statistics = TRUE /\ den = 1
    /\ match_matrix = << >> /\ step = 0 /\ step_statistics = << >>
    /\ pc = "match" /\ error = "none" /\ original = << >> /\ entry_fixed = {}
    /\ seed_calls = 0 /\ seed_idx = -1 /\ trace = << >> /\ applied = << >>
    /\ twin = NoTwin
    /\ mA \in { Catalogue(t) : t \in Tables }
    /\ mB \in { Catalogue(t) : t \in Tables }
    /\ mL \in SepLimits
    /\ mAB = NoMatch /\ mBA = NoMatch /\ mCalled = FALSE

CallMatches ==
    /\ ~mCalled
    /\ mAB' = calculate_matches(mA, mB, mL, 1)
    /\ mBA' = calculate_matches(mB, mA, mL, 1)
    /\ mCalled' = TRUE
    /\ UNCHANGED <<mA, mB, mL, twin>>
    /\ UNCHANGED shifterVars

NextMatch == CallMatches

SpecMatch == InitMatch /\ [][NextMatch]_vars

----------------------------------------------------------------------------
\* Properties

K == NumCat(catalogues)

\* perform_iterative_shifter was entered with exactly one catalogue fixed
OneFixedAtEntry ==
    pc \in {"loop", "done", "raised"} /\ Cardinality(entry_fixed) = 1

\* The kind of the last executed loop iteration
LastKind == IF trace = << >> THEN "none" ELSE trace[Len(trace)].kind

\* C1 as stated: when perform_iterative_shifter returns, for K >= 2 catalogues
\* of which exactly one was fixed at entry, every catalogue is fixed.
C1_AllFixedAtReturn ==
    (pc = "done" /\ OneFixedAtEntry /\ K >= 2)
        => FixedSet(catalogues) = DOMAIN catalogues

\* C1 as amended: when perform_iterative_shifter returns, for K >= 2 catalogues
\* of which exactly one was fixed at entry, the last step was a reseed and
\* exactly one catalogue is fixed.
C1_OneFixedAtReturn ==
    (pc = "done" /\ OneFixedAtEntry /\ K >= 2)
        => (LastKind = "reseed" /\ Cardinality(FixedSet(catalogues)) = 1)

C1_Witness ==
    pc = "done" /\ OneFixedAtEntry /\ K = 3 /\ passes = 2

\* C2: a run entered with exactly one fixed catalogue ends by returning, after
\* exactly K x passes steps, each a shift or a reseed, whatever the match
\* counts; a seed selection, if any, happened once and before the first step.
C2_ExactlyKPassesSteps ==
    (OneFixedAtEntry /\ pc \in {"done", "raised"})
        => /\ pc = "done"
           /\ Len(trace) = K * passes
           /\ \A i \in 1..Len(trace) : trace[i].kind \in {"shift", "reseed"}
           /\ seed_calls <= 1

\* The number of matches of catalogue i with all others in the match matrix:
\* its row plus its column
TotalMatches(i) ==
    SumOver(DOMAIN catalogues,
            [j \in DOMAIN catalogues |-> match_matrix[i][j] + match_matrix[j][i]])

\* C3: set_seed_catalogues fixes the catalogue whose number of matches with all
\* other catalogues is greatest, the lowest index on ties.
C3_SeedHasMostMatches ==
    (seed_calls = 1 /\ seed_idx >= 0)
        => seed_idx = ArgMax([i \in DOMAIN catalogues |-> TotalMatches(i)])

\* C4: a loop iteration whose best pair has no match does not raise and leaves
\* the positions and the cumulative offset of the selected catalogue as they
\* were.
C4_ZeroMatchIsNoOp ==
    [][ (Len(trace') = Len(trace) + 1 /\ trace'[Len(trace')].n = 0
            /\ trace'[Len(trace')].shift_beam_idx >= 0)
        => /\ trace'[Len(trace')].kind = "shift"
           /\ catalogues'[trace'[Len(trace')].shift_beam_idx].points
                = catalogues[trace'[Len(trace')].shift_beam_idx].points
           /\ catalogues'[trace'[Len(trace')].shift_beam_idx].nanpos
                = catalogues[trace'[Len(trace')].shift_beam_idx].nanpos
           /\ catalogues'[trace'[Len(trace')].shift_beam_idx].offset
                = catalogues[trace'[Len(trace')].shift_beam_idx].offset ]_vars

\* C5 as stated: with gather_statistics, a run that returns has recorded one
\* StepInfo per executed step, K x passes in all.
C5_OneStepInfoPerStep ==
    (pc = "done" /\ gather_statistics /\ OneFixedAtEntry)
        => (Len(step_statistics) = K * passes /\ Len(step_statistics) = Len(trace))

\* The history records of the iterations that shifted a catalogue and returned
\* from calculate_catalogue_jitter
ShiftEntries == SelectSeq(trace, LAMBDA e : e.kind = "shift")

\* C5 as amended: with gather_statistics, the statistics hold one StepInfo per
\* shift step, in step order, and none for a reseed step: at any time the i-th
\* StepInfo is the snapshot of the i-th shift step, and a run entered with one
\* fixed catalogue that returns has recorded (K - 1) x passes of them.
C5_OneStepInfoPerShift ==
    gather_statistics
        => /\ Len(step_statistics) = Len(ShiftEntries)
           /\ \A i \in 1..Len(step_statistics) :
                 step_statistics[i].number_of_matches = ShiftEntries[i].number_of_matches
           /\ (pc = "done" /\ OneFixedAtEntry)
                 => Len(step_statistics) = (K - 1) * passes

C5_Witness ==
    /\ pc = "done" /\ gather_statistics /\ OneFixedAtEntry /\ K = 3 /\ passes = 2
    /\ Len(step_statistics) = 4
    /\ step_statistics[1].number_of_matches # step_statistics[4].number_of_matches

\* set_seed_catalogues has just returned normally
SeedReturned == seed_calls = 1 /\ pc = "loop" /\ trace = << >>

\* C6: whenever set_seed_catalogues returns normally, the selected seed is
\* fixed and no other catalogue is, whatever the fixed flags of the input.
C6_ExactlyOneSeed ==
    SeedReturned => FixedSet(catalogues) = {seed_idx}

C6_Witness ==
    SeedReturned /\ K = 3 /\ FixedSet(original) # {} /\ seed_idx # 0

\* C7: a single catalogue that is fixed at entry goes through exactly passes
\* steps, all reseeds; the run returns with the catalogue fixed, its positions
\* unchanged and its offset (0, 0).
C7_SingleCatalogue ==
    (K = 1 /\ OneFixedAtEntry)
        => /\ pc # "raised"
           /\ \A i \in 1..Len(trace) : trace[i].kind = "reseed"
           /\ catalogues[0].points = [p \in 1..Len(original[0].points) |->
                                        <<original[0].points[p][1] * den,
                                          original[0].points[p][2] * den>>]
           /\ ~catalogues[0].nanpos
           /\ catalogues[0].offset = Offset
           /\ catalogues[0].fixed
           /\ pc = "done" => Len(trace) = passes

C7_Witness ==
    K = 1 /\ OneFixedAtEntry /\ pc = "done" /\ passes = 2
        /\ Len(catalogues[0].points) = 2

\* C8: the run with gather_statistics and the run without, on the same
\* catalogues with the same passes and random indices, select the same pair at
\* every step and end with the same positions, fixed flags and offsets.
C8_SameScheduleAndResult ==
    (pc \in {"done", "raised"} /\ twin.pc \in {"done", "raised"})
        => /\ twin.pc = pc
           /\ twin.catalogues = catalogues
           /\ twin.den = den
           /\ twin.pairs = [i \in 1..Len(trace) |->
                              <<trace[i].kind, trace[i].fixed_beam_idx,
                                trace[i].shift_beam_idx>>]

\* The field-wise sum of a sequence of offsets, NaN if one of them is
SumOfOffsets(seq) ==
    IF \E j \in 1..Len(seq) : seq[j].nan THEN NaNOffset
    ELSE [nan |-> FALSE,
          ra |-> SumOver(1..Len(seq), [j \in 1..Len(seq) |-> seq[j].ra]),
          dec |-> SumOver(1..Len(seq), [j \in 1..Len(seq) |-> seq[j].dec])]

\* C9: at every point of a run each catalogue's cumulative offset is the
\* field-wise sum of the offset_means of the shifts applied to it so far:
\* (0, 0) if it was never shifted, and untouched by a reseed.
C9_OffsetIsSumOfShifts ==
    \A i \in DOMAIN catalogues : catalogues[i].offset = SumOfOffsets(applied[i])

C9_Witness ==
    \E i \in DOMAIN catalogues :
        /\ Len(applied[i]) = 2
        /\ ~applied[i][1].nan /\ ~applied[i][2].nan
        /\ applied[i][1].ra # 0 /\ applied[i][2].ra # 0
        /\ LastKind = "reseed"

\* C10: the number of matches does not depend on the order of the two
\* catalogues, for every separation limit, also when a point has several
\* partners within the limit.
C10_CountSymmetric ==
    mCalled => mAB.n = mBA.n

C10_Witness ==
    mCalled /\ Len(mA.points) = 1 /\ Len(mB.points) = 2 /\ mAB.n = 2

\* The square of the distance of the positions p and q, in whole arcseconds
Apart(p, q) == (p[1] - q[1]) * (p[1] - q[1]) + (p[2] - q[2]) * (p[2] - q[2])

\* calculate_matches was called on one point set against itself
SelfMatched == mCalled /\ mA = mB /\ Len(mA.points) > 0

\* The ordered pairs of different points of the sequence pts within L of
\* each other
ClosePairs(pts, L) ==
    { ij \in (1..Len(pts)) \X (1..Len(pts)) :
        ij[1] # ij[2] /\ Apart(pts[ij[1]], pts[ij[2]]) <= L * L }

\* The mean offset of a Match is (0, 0)
ZeroMean(m) == ~m.offset_mean.nan /\ m.offset_mean.ra = 0 /\ m.offset_mean.dec = 0

\* C11 as stated: matching a non-empty point set against itself, at any
\* separation limit, gives one match per point and the mean offset (0, 0).
C11_SelfMatchOnePerPoint ==
    SelfMatched => (mAB.n = Len(mA.points) /\ ZeroMean(mAB))

\* C11 as amended: matching a non-empty point set against itself gives the
\* mean offset (0, 0) and one match per point plus one per ordered pair of
\* different points within the limit of each other, hence one match per point
\* exactly when no two points of the set are within the limit.
C11_SelfMatchCountsClosePairs ==
    SelfMatched
        => /\ ZeroMean(mAB)
           /\ mAB.n = Len(mA.points) + Cardinality(ClosePairs(mA.points, mL))
           /\ (mAB.n = Len(mA.points)) <=> (ClosePairs(mA.points, mL) = {})

C11_Witness ==
    SelfMatched /\ Len(mA.points) = 2 /\ mAB.n = 4 /\ mL = SepLimitArcsec

\* The matched pairs of m that the i-th point of catalogue 1 takes part in,
\* and those of the j-th point of catalogue 2
PairsOfFirst(m, i) == { ij \in m.matches : ij[1] = i }

PairsOfSecond(m, j) == { ij \in m.matches : ij[2] = j }

\* C12 as stated: every reported index pair is within the separation limit and
\* each point of either catalogue takes part in at most one matched pair.
C12_AtMostOnePairPerPoint ==
    mCalled
        => /\ \A ij \in mAB.matches :
                 Apart(mA.points[ij[1]], mB.points[ij[2]]) <= mL * mL
           /\ \A i \in 1..Len(mA.points) : Cardinality(PairsOfFirst(mAB, i)) <= 1
           /\ \A j \in 1..Len(mB.points) : Cardinality(PairsOfSecond(mAB, j)) <= 1

\* C12 as amended: every reported index pair is within the separation limit
\* and every pair within the limit is reported, so that a point takes part in
\* one matched pair for each point of the other catalogue within the limit of
\* it, which may be several.
C12_EveryPairWithinLimit ==
    mCalled
        => /\ \A ij \in mAB.matches :
                 Apart(mA.points[ij[1]], mB.points[ij[2]]) <= mL * mL
           /\ \A i \in 1..Len(mA.points) :
                 Cardinality(PairsOfFirst(mAB, i)) =
                    Cardinality({ j \in 1..Len(mB.points) :
                                    Apart(mA.points[i], mB.points[j]) <= mL * mL })
           /\ \A j \in 1..Len(mB.points) :
                 Cardinality(PairsOfSecond(mAB, j)) =
                    Cardinality({ i \in 1..Len(mA.points) :
                                    Apart(mA.points[i], mB.points[j]) <= mL * mL })

C12_Witness ==
    /\ mCalled /\ Len(mA.points) = 2 /\ Len(mB.points) = 2 /\ mA # mB
    /\ Cardinality(PairsOfFirst(mAB, 1)) = 2
    /\ Cardinality(PairsOfSecond(mAB, 2)) = 1

\* C13 as stated: a run given zero catalogues never returns normally, neither
\* the seed selection followed by perform_iterative_shifter nor
\* perform_iterative_shifter alone.
C13_EmptyRunAborts ==
    K = 0 => pc # "done"

\* C13 as amended: on zero catalogues the seed selection raises ValueError, so
\* that perform_iterative_shifter is never reached after it, while
\* perform_iterative_shifter called alone executes no step, records no
\* statistics and returns the empty collection normally.
C13_EmptySeedAbortsShifterReturns ==
    K = 0
        => /\ seed_calls = 1 => (pc = "raised" /\ error = "ValueError")
           /\ seed_calls = 0 => (pc # "raised" /\ error = "none")
           /\ pc \in {"loop", "done"}
                 => (seed_calls = 0 /\ step = 0 /\ trace = << >>
                        /\ step_statistics = << >> /\ catalogues = << >>)

C13_Witness ==
    K = 0 /\ pc = "done" /\ seed_calls = 0 /\ passes = 2

\* A loop iteration of perform_iterative_shifter is executed, and its history
\* record
Stepped == Len(trace') = Len(trace) + 1

ThisStep == trace'[Len(trace')]

\* The indices of the floating catalogues
Floating(cats) == DOMAIN cats \ FixedSet(cats)

\* C14: across every step of perform_iterative_shifter the set of fixed
\* catalogues changes in only two ways: a shift adds exactly one catalogue that
\* was floating and removes none, and a reseed, taken only when every
\* catalogue is fixed, replaces the set by a set of exactly one catalogue.
C14_FixedSetGrowsOrResets ==
    [][ /\ Stepped
            => \/ /\ ThisStep.shifted
                  /\ ThisStep.shift_beam_idx \in Floating(catalogues)
                  /\ FixedSet(catalogues') =
                        FixedSet(catalogues) \cup {ThisStep.shift_beam_idx}
               \/ /\ ThisStep.kind = "reseed"
                  /\ FixedSet(catalogues) = DOMAIN catalogues
                  /\ Cardinality(FixedSet(catalogues')) = 1
               \/ /\ ThisStep.kind = "raise" /\ ~ThisStep.shifted
                  /\ FixedSet(catalogues') = FixedSet(catalogues)
        /\ (pc = "loop" /\ ~Stepped)
            => FixedSet(catalogues') = FixedSet(catalogues) ]_vars

C14_Witness ==
    /\ K = 3 /\ Len(trace) = 5 /\ LastKind = "shift"
    /\ trace[3].kind = "reseed"
    /\ Cardinality(trace[4].fixed_before) = 1
    /\ Cardinality(trace[5].fixed_before) = 2
    /\ FixedSet(catalogues) = DOMAIN catalogues

\* The number of pairs of a position of catalogue f and a position of
\* catalogue c within the separation limit, counted from the positions
CountWithin(cats, d, f, c) ==
    Cardinality({ ij \in (1..Len(cats[f].points)) \X (1..Len(cats[c].points)) :
                    Apart(cats[f].points[ij[1]], cats[c].points[ij[2]])
                        <= (SepLimitArcsec * d) * (SepLimitArcsec * d) })

\* The pair (f, c) comes before or at (g, e) in the order of the nested loops
NotAfter(f, c, g, e) == f < g \/ (f = g /\ c <= e)

\* C15: in every step that starts with a fixed catalogue, find_next_pair
\* returns None if and only if no catalogue is floating; otherwise it returns
\* a pair of a fixed and a floating catalogue whose number of matches is the
\* greatest among all fixed x floating pairs, the first such pair in the order
\* fixed index ascending, then floating index ascending.
C15_FirstBestPair ==
    [][ (Stepped /\ FixedSet(catalogues) # {})
            => /\ (ThisStep.kind = "reseed") <=> (Floating(catalogues) = {})
               /\ Floating(catalogues) # {}
                    => /\ ThisStep.shifted
                       /\ ThisStep.fixed_beam_idx \in FixedSet(catalogues)
                       /\ ThisStep.shift_beam_idx \in Floating(catalogues)
                       /\ ThisStep.n = CountWithin(catalogues, den,
                                                   ThisStep.fixed_beam_idx,
                                                   ThisStep.shift_beam_idx)
                       /\ \A f \in FixedSet(catalogues) : \A c \in Floating(catalogues) :
                             /\ CountWithin(catalogues, den, f, c) <= ThisStep.n
                             /\ CountWithin(catalogues, den, f, c) = ThisStep.n
                                   => NotAfter(ThisStep.fixed_beam_idx,
                                               ThisStep.shift_beam_idx, f, c) ]_vars

\* The catalogue has the same positions and the same cumulative offset in
\* before, over the denominator d, and in after, over the denominator e
SameSky(before, d, after, e) ==
    /\ Len(after.points) = Len(before.points)
    /\ \A p \in 1..Len(before.points) :
          /\ after.points[p][1] * d = before.points[p][1] * e
          /\ after.points[p][2] * d = before.points[p][2] * e
    /\ after.nanpos = before.nanpos
    /\ after.offset.nan = before.offset.nan
    /\ after.offset.ra * d = before.offset.ra * e
    /\ after.offset.dec * d = before.offset.dec * e

\* C16: a step is a reseed exactly when it starts with no floating catalogue,
\* whether or not any matches exist; the reseed leaves exactly one catalogue
\* fixed, one of all K, uses up one step of the loop bound, and leaves the
\* positions and the cumulative offset of every catalogue as they were.
C16_ReseedWhenNoneFloating ==
    [][ Stepped
            => /\ (ThisStep.kind = "reseed") <=> (Floating(catalogues) = {})
               /\ ThisStep.kind = "reseed"
                    => /\ Cardinality(FixedSet(catalogues')) = 1
                       /\ FixedSet(catalogues') \subseteq DOMAIN catalogues
                       /\ step' = step + 1
                       /\ DOMAIN catalogues' = DOMAIN catalogues
                       /\ \A i \in DOMAIN catalogues :
                             SameSky(catalogues[i], den, catalogues'[i], den') ]_vars

C16_Witness ==
    /\ K = 3 /\ LastKind = "reseed" /\ trace[Len(trace)].step = 2
    /\ FixedSet(catalogues) = {2} /\ entry_fixed = {0}
    /\ \A i \in 1..2 : trace[i].n = 0

\* The sum, over the matched index pairs, of the offsets on the given axis
\* from the position of catalogue f to the position of catalogue c
SumOfPairOffsets(cats, f, c, pairs, axis) ==
    SumOver(pairs, [ij \in pairs |->
                      cats[c].points[ij[2]][axis] - cats[f].points[ij[1]][axis]])

\* C17: after a shift step on the pair (F, C) with at least one match, the
\* mean on each axis of the offsets from F to C, taken over the matched pairs
\* that produced offset_mean, is zero: C was moved onto F, not away from it.
C17_ShiftCancelsMeanOffset ==
    [][ (Stepped /\ ThisStep.shifted /\ ThisStep.n > 0)
            => /\ ~catalogues'[ThisStep.shift_beam_idx].nanpos
               /\ SumOfPairOffsets(catalogues', ThisStep.fixed_beam_idx,
                                   ThisStep.shift_beam_idx, ThisStep.matches, 1) = 0
               /\ SumOfPairOffsets(catalogues', ThisStep.fixed_beam_idx,
                                   ThisStep.shift_beam_idx, ThisStep.matches, 2) = 0 ]_vars

C17_Witness ==
    /\ LastKind = "shift" /\ trace[Len(trace)].n = 2 /\ den = 2
    /\ Len(applied[trace[Len(trace)].shift_beam_idx]) = 1
    /\ applied[trace[Len(trace)].shift_beam_idx][1].dec # 0

\* C18: a shift step on the pair (F, C) changes catalogue C only: every other
\* catalogue, the reference F included, keeps its positions, its cumulative
\* offset and its fixed flag, with or without the statistics of
\* calculate_catalogue_jitter; and a step that ends inside find_next_pair
\* changes no catalogue at all.
C18_ShiftChangesOnlyShifted ==
    [][ Stepped
            => /\ DOMAIN catalogues' = DOMAIN catalogues
               /\ ThisStep.shifted
                    => \A i \in DOMAIN catalogues \ {ThisStep.shift_beam_idx} :
                          /\ SameSky(catalogues[i], den, catalogues'[i], den')
                          /\ catalogues'[i].fixed = catalogues[i].fixed
               /\ (ThisStep.kind = "raise" /\ ~ThisStep.shifted)
                    => (catalogues' = catalogues /\ den' = den) ]_vars

C18_Witness ==
    /\ K = 3 /\ Len(trace) = 1 /\ LastKind = "shift" /\ gather_statistics
    /\ trace[1].n = 2 /\ den = 2
    /\ \E i \in DOMAIN catalogues :
          /\ ~catalogues[i].fixed /\ Len(catalogues[i].points) = 2
          /\ original[i].points = original[trace[1].shift_beam_idx].points

\* The number of executed steps of the given kind
StepsOfKind(kind) == Len(SelectSeq(trace, LAMBDA e : e.kind = kind))

\* C19: a run entered with exactly one fixed catalogue among K >= 2 has a
\* fixed rhythm: the steps with index K - 1 modulo K are reseeds and all other
\* steps are shifts, so that the run performs exactly (K - 1) x passes shifts
\* and passes reseeds, and between two consecutive reseeds no catalogue is
\* shifted twice.
C19_FixedRhythm ==
    (OneFixedAtEntry /\ K >= 2)
        => /\ \A i \in 1..Len(trace) :
                 trace[i].kind = IF trace[i].step % K = K - 1 THEN "reseed" ELSE "shift"
           /\ pc \in {"done", "raised"}
                 => /\ StepsOfKind("shift") = (K - 1) * passes
                    /\ StepsOfKind("reseed") = passes
           /\ \A i \in 1..Len(trace) : \A j \in (i + 1)..Len(trace) :
                 (trace[i].shifted /\ trace[j].shifted
                    /\ trace[i].shift_beam_idx = trace[j].shift_beam_idx)
                 => \E k \in (i + 1)..(j - 1) : trace[k].kind = "reseed"

\* C20: in a run entered with exactly one fixed catalogue, for any K >= 1 and
\* any passes, the assertion of find_next_pair that a catalogue is fixed holds
\* at the start of every step, the step after a reseed included, whatever
\* index the reseed drew: no step fails it, and while the loop runs at least
\* one catalogue is fixed.
C20_AlwaysOneFixed ==
    (OneFixedAtEntry /\ K >= 1)
        => /\ error # "AssertionError"
           /\ \A i \in 1..Len(trace) : trace[i].fixed_before # {}
           /\ pc = "loop" => FixedSet(catalogues) # {}

C20_Witness ==
    /\ OneFixedAtEntry /\ K = 3 /\ passes = 2 /\ Len(trace) = 4
    /\ trace[3].kind = "reseed" /\ trace[4].fixed_before = {1}
    /\ trace[4].kind = "shift" /\ entry_fixed = {2}

\* The run went through set_seed_catalogues and a single pass was asked for
SeededSinglePass == seed_calls = 1 /\ seed_idx >= 0 /\ passes = 1

\* C21: with passes = 1 the seed fixed by set_seed_catalogues is never the
\* shifted catalogue of a step: throughout the run and at its end the seed has
\* the positions it was loaded with and the cumulative offset (0, 0).
C21_SeedNeverShifted ==
    SeededSinglePass
        => /\ \A i \in 1..Len(trace) :
                 ~(trace[i].shifted /\ trace[i].shift_beam_idx = seed_idx)
           /\ applied[seed_idx] = << >>
           /\ SameSky(original[seed_idx], 1, catalogues[seed_idx], den)
           /\ catalogues[seed_idx].offset = Offset

C21_Witness ==
    /\ SeededSinglePass /\ pc = "done" /\ K = 3 /\ seed_idx # 0 /\ den = 2
    /\ Len(original[seed_idx].points) = 2
    /\ StepsOfKind("shift") = 2

====
